---- MODULE Spec2Model ----
(***************************************************************************)
(* 2WW Colorectal Pathway Selector: the decision engine (fitBand,          *)
(* decision), the multi-pathway merge (mergeOutcomes) and the form state   *)
(* of App that feeds them.                                                 *)
(*                                                                         *)
(* Encoding of JavaScript values.  A value that may be null, NaN, a number *)
(* or a boolean is a record [t, v] whose tag t tells the kinds apart.      *)
(* Strings are TLA+ strings; the non-ASCII characters of the source texts  *)
(* are written in ASCII: the arrow as "->", the en dash as "-", the em     *)
(* dash as "--", the greater-or-equal sign as ">=".                        *)
(* Numbers are integers: fractional FIT values and ages are outside the    *)
(* model.                                                                  *)
(***************************************************************************)
EXTENDS Integers, Sequences, FiniteSets, TLC

VARIABLES
    pathway,        \* App state: useState("")
    selectedPaths,  \* App state: useState([])
    ageStr,         \* App state: raw text of the age field
    fitStr,         \* App state: raw text of the FIT field
    frailElderly,   \* App state: null | boolean
    anaemia,        \* App state: null | boolean
    recentImaging,  \* App state: null | boolean
    whoStatus,      \* App state: null | 0-4
    args,           \* one call of decision: its argument record
    res,            \* one call of decision: the local result object res
    pc              \* one call of decision: position in the function body

vars == <<pathway, selectedPaths, ageStr, fitStr, frailElderly, anaemia,
          recentImaging, whoStatus, args, res, pc>>

appVars == <<pathway, selectedPaths, ageStr, fitStr, frailElderly, anaemia,
             recentImaging, whoStatus>>

callVars == <<args, res, pc>>

-----------------------------------------------------------------------------
(* JavaScript values *)

null == [t |-> "null", v |-> 0]
NaN == [t |-> "nan", v |-> 0]
Num(n) == [t |-> "num", v |-> n]
true == [t |-> "bool", v |-> 1]
false == [t |-> "bool", v |-> 0]
Str(s) == [t |-> "str", v |-> s]

isAbsent_NullOnly(x) == x = null

\* x === null || Number.isNaN(x)
isAbsent(x) == x = null \/ x = NaN

-----------------------------------------------------------------------------
(* The pathway keys of the form *)

pathways ==
    << "abdominal_mass", "anal_rectal_lesion", "cibh_50_85", "cibh_gt_85",
       "ida_gt_50", "ida_lt_50", "rb_cibh_lt_50", "wl_50_85",
       "wl_lt_50_or_gt_85" >>

PathwayKeys == { pathways[i] : i \in 1..Len(pathways) }

EmDash == "--"

-----------------------------------------------------------------------------
(* fitBand: FIT value -> band *)

fitBand_LowExclusive(fit) ==
    IF fit = null \/ fit = NaN THEN null
    ELSE IF fit.v <= 10 THEN Str("lt_10")
    ELSE IF fit.v >= 10 /\ fit.v <= 100 THEN Str("10_100")
    ELSE Str("gt_100")

fitBand(fit) ==
    IF fit = null \/ fit = NaN THEN null
    ELSE IF fit.v < 10 THEN Str("lt_10")
    ELSE IF fit.v >= 10 /\ fit.v <= 100 THEN Str("10_100")
    ELSE Str("gt_100")

-----------------------------------------------------------------------------
(* decision, in the order of its body *)

push(list, x) == Append(list, x)

\* lines 46-57: the missing list
missingOf_AlwaysAgeFit(a) ==
    (IF a.pathway = "" THEN <<"pathway selection">> ELSE <<>>)
    \o (IF a.pathway # ""
        THEN (IF isAbsent(a.age) THEN <<"age">> ELSE <<>>)
             \o (IF isAbsent(a.fit) THEN <<"FIT test result">> ELSE <<>>)
        ELSE <<>>)
    \o (IF a.pathway = "abdominal_mass" /\ a.frailElderly = null
        THEN <<"frail/elderly status">> ELSE <<>>)
    \o (IF a.pathway = "rb_cibh_lt_50" /\ a.anaemia = null
        THEN <<"anaemia status">> ELSE <<>>)

missingOf_FlagsAnyPathway(a) ==
    (IF a.pathway = "" THEN <<"pathway selection">> ELSE <<>>)
    \o (IF a.pathway # "" /\ a.pathway # "anal_rectal_lesion"
        THEN (IF isAbsent(a.age) THEN <<"age">> ELSE <<>>)
             \o (IF isAbsent(a.fit) THEN <<"FIT test result">> ELSE <<>>)
        ELSE <<>>)
    \o (IF a.frailElderly = null
        THEN <<"frail/elderly status">> ELSE <<>>)
    \o (IF a.pathway = "rb_cibh_lt_50" /\ a.anaemia = null
        THEN <<"anaemia status">> ELSE <<>>)

missingOf_AnaemiaAnyPathway(a) ==
    (IF a.pathway = "" THEN <<"pathway selection">> ELSE <<>>)
    \o (IF a.pathway # "" /\ a.pathway # "anal_rectal_lesion"
        THEN (IF isAbsent(a.age) THEN <<"age">> ELSE <<>>)
             \o (IF isAbsent(a.fit) THEN <<"FIT test result">> ELSE <<>>)
        ELSE <<>>)
    \o (IF a.pathway = "abdominal_mass" /\ a.frailElderly = null
        THEN <<"frail/elderly status">> ELSE <<>>)
    \o (IF a.anaemia = null
        THEN <<"anaemia status">> ELSE <<>>)

missingOf(a) ==
    (IF a.pathway = "" THEN <<"pathway selection">> ELSE <<>>)
    \o (IF a.pathway # "" /\ a.pathway # "anal_rectal_lesion"
        THEN (IF isAbsent(a.age) THEN <<"age">> ELSE <<>>)
             \o (IF isAbsent(a.fit) THEN <<"FIT test result">> ELSE <<>>)
        ELSE <<>>)
    \o (IF a.pathway = "abdominal_mass" /\ a.frailElderly = null
        THEN <<"frail/elderly status">> ELSE <<>>)
    \o (IF a.pathway = "rb_cibh_lt_50" /\ a.anaemia = null
        THEN <<"anaemia status">> ELSE <<>>)

\* lines 46-68: missing, band and the initial res object
newRes(a) ==
    [ missing |-> missingOf(a),
      band |-> fitBand(a.fit),
      outcome |-> EmDash,
      step |-> IF a.pathway # "" THEN "" ELSE "Choose a pathway",
      mapping |-> <<>>,
      supplementary |-> <<>> ]

\* lines 70-76
finalize_Who4Only(a, result) ==
    IF a.whoStatus = Num(4)
    THEN [result EXCEPT
            !.outcome = "Face-to-face assessment",
            !.mapping = push(@, "WHO status 3-4 -> face-to-face assessment.")]
    ELSE result

finalize_ReplacesTrace(a, result) ==
    IF a.whoStatus = Num(3) \/ a.whoStatus = Num(4)
    THEN [result EXCEPT
            !.outcome = "Face-to-face assessment",
            !.mapping = <<"WHO status 3-4 -> face-to-face assessment.">>]
    ELSE result

finalize(a, result) ==
    IF a.whoStatus = Num(3) \/ a.whoStatus = Num(4)
    THEN [result EXCEPT
            !.outcome = "Face-to-face assessment",
            !.mapping = push(@, "WHO status 3-4 -> face-to-face assessment.")]
    ELSE result

\* lines 79-81: the recent-imaging override, before finalize
recentImagingOverride(r) ==
    [r EXCEPT
        !.outcome = "Face-to-face appointment",
        !.mapping = push(@, "Recent imaging/colonoscopy within 12 months -> face-to-face appointment.")]

ageKnown(a) == a.age # null /\ a.age # NaN

FitLt10Text == "Follow pathway guidance for FIT <10 (not provided in your rules yet)"

\* lines 89-115, Rule set A
abdominal_mass_BandBeforeFrail(a, r0) ==
    LET r == [r0 EXCEPT !.step = "Rule set A: Abdominal mass"]
        banded ==
            IF r.band = Str("10_100")
            THEN [r EXCEPT !.outcome = "CT colonography (CTC)",
                           !.mapping = push(@, "Abdominal mass + FIT 10-100 -> CTC.")]
            ELSE IF r.band = Str("gt_100")
            THEN [r EXCEPT !.outcome = "Colonoscopy",
                           !.mapping = push(@, "Abdominal mass + FIT >100 -> colonoscopy.")]
            ELSE IF r.band = Str("lt_10")
            THEN [r EXCEPT !.outcome = "CT abdomen & pelvis (CT AP)",
                           !.mapping = push(@, "Abdominal mass + FIT <10 -> CT AP.")]
            ELSE IF a.frailElderly = true
            THEN [r EXCEPT !.outcome = "CT abdomen & pelvis (CT AP)",
                           !.mapping = push(@, "Abdominal mass + frail/elderly -> CT AP.")]
            ELSE [r EXCEPT !.outcome = "Needs FIT result"]
    IN  IF a.frailElderly = null
        THEN [banded EXCEPT !.supplementary = push(@,
                "Frail/elderly status missing: if frail/elderly, pathway specifies CT AP regardless of FIT band.")]
        ELSE banded

abdominal_mass(a, r0) ==
    LET r == [r0 EXCEPT !.step = "Rule set A: Abdominal mass"]
        banded ==
            IF r.band = Str("10_100")
            THEN [r EXCEPT !.outcome = "CT colonography (CTC)",
                           !.mapping = push(@, "Abdominal mass + FIT 10-100 -> CTC.")]
            ELSE IF r.band = Str("gt_100")
            THEN [r EXCEPT !.outcome = "Colonoscopy",
                           !.mapping = push(@, "Abdominal mass + FIT >100 -> colonoscopy.")]
            ELSE IF r.band = Str("lt_10")
            THEN [r EXCEPT !.outcome = "CT abdomen & pelvis (CT AP)",
                           !.mapping = push(@, "Abdominal mass + FIT <10 -> CT AP.")]
            ELSE [r EXCEPT !.outcome = "Needs FIT result"]
    IN  IF a.frailElderly = true
        THEN [r EXCEPT !.outcome = "CT abdomen & pelvis (CT AP)",
                       !.mapping = push(@, "Abdominal mass + frail/elderly -> CT AP.")]
        ELSE IF a.frailElderly = null
        THEN [banded EXCEPT !.supplementary = push(@,
                "Frail/elderly status missing: if frail/elderly, pathway specifies CT AP regardless of FIT band.")]
        ELSE banded

\* lines 116-121
anal_rectal_lesion(a, r) ==
    [r EXCEPT !.step = "Rule set: Anal or rectal lesion",
              !.outcome = "Face-to-face assessment",
              !.mapping = push(@, "Anal or rectal lesion -> face-to-face assessment.")]

\* lines 124-142, Rule set B
cibh_50_85(a, r0) ==
    LET r == [r0 EXCEPT !.step = "Rule set B: CIBH age 50-85"]
        banded ==
            IF r.band = Str("10_100")
            THEN [r EXCEPT !.outcome = "CT colonography (CTC)",
                           !.mapping = push(@, "CIBH 50-85 + FIT 10-100 -> CTC.")]
            ELSE IF r.band = Str("gt_100")
            THEN [r EXCEPT !.outcome = "Colonoscopy",
                           !.mapping = push(@, "CIBH 50-85 + FIT >100 -> colonoscopy.")]
            ELSE IF r.band = Str("lt_10")
            THEN [r EXCEPT !.outcome = FitLt10Text,
                           !.mapping = push(@, "CIBH 50-85 + FIT <10 -> follow FIT <10 guidance.")]
            ELSE [r EXCEPT !.outcome = "Needs FIT result"]
    IN  IF ageKnown(a) /\ (a.age.v < 50 \/ a.age.v > 85)
        THEN [banded EXCEPT !.supplementary = push(@,
                "Age entered is outside 50-85 for this pathway selection.")]
        ELSE banded

\* lines 145-163, Rule set C
cibh_gt_85(a, r0) ==
    LET r == [r0 EXCEPT !.step = "Rule set C: CIBH age >85"]
        banded ==
            IF r.band = Str("10_100")
            THEN [r EXCEPT !.outcome = "Tagged CT scan",
                           !.mapping = push(@, "CIBH >85 + FIT 10-100 -> tagged CT scan.")]
            ELSE IF r.band = Str("gt_100")
            THEN [r EXCEPT !.outcome = "Colonoscopy",
                           !.mapping = push(@, "CIBH >85 + FIT >100 -> colonoscopy.")]
            ELSE IF r.band = Str("lt_10")
            THEN [r EXCEPT !.outcome = FitLt10Text,
                           !.mapping = push(@, "CIBH >85 + FIT <10 -> follow FIT <10 guidance.")]
            ELSE [r EXCEPT !.outcome = "Needs FIT result"]
    IN  IF ageKnown(a) /\ a.age.v <= 85
        THEN [banded EXCEPT !.supplementary = push(@,
                "Age entered is not >85 for this pathway selection.")]
        ELSE banded

\* lines 166-184, Rule set D
ida_gt_50(a, r0) ==
    LET r == [r0 EXCEPT !.step = "Rule set D: IDA age >50"]
        banded ==
            IF r.band = Str("gt_100")
            THEN [r EXCEPT !.outcome = "Colonoscopy + OGD",
                           !.mapping = push(@, "IDA >50 + FIT >100 -> colonoscopy + OGD.")]
            ELSE IF r.band = Str("10_100")
            THEN [r EXCEPT !.outcome = "CTC + OGD",
                           !.mapping = push(@, "IDA >50 + FIT 10-100 -> CTC + OGD.")]
            ELSE IF r.band = Str("lt_10")
            THEN [r EXCEPT !.outcome = "CTC + OGD",
                           !.mapping = push(@, "IDA >50 + FIT <10 -> CTC + OGD.")]
            ELSE [r EXCEPT !.outcome = "Needs FIT result"]
    IN  IF ageKnown(a) /\ a.age.v <= 50
        THEN [banded EXCEPT !.supplementary = push(@,
                "Age entered is not >50 for this pathway selection.")]
        ELSE banded

\* lines 187-195, Rule set E
ida_lt_50_AgeGated(a, r0) ==
    LET r == [r0 EXCEPT !.step = "Rule set E: IDA age <50",
                        !.outcome = IF ageKnown(a) /\ a.age.v >= 50
                                    THEN "CTC + OGD" ELSE "Colonoscopy + OGD",
                        !.mapping = push(@, "IDA <50 -> colonoscopy + OGD (regardless of FIT band in your rules).")]
    IN  IF ageKnown(a) /\ a.age.v >= 50
        THEN [r EXCEPT !.supplementary = push(@,
                "Age entered is not <50 for this pathway selection.")]
        ELSE r

ida_lt_50(a, r0) ==
    LET r == [r0 EXCEPT !.step = "Rule set E: IDA age <50",
                        !.outcome = "Colonoscopy + OGD",
                        !.mapping = push(@, "IDA <50 -> colonoscopy + OGD (regardless of FIT band in your rules).")]
    IN  IF ageKnown(a) /\ a.age.v >= 50
        THEN [r EXCEPT !.supplementary = push(@,
                "Age entered is not <50 for this pathway selection.")]
        ELSE r

\* lines 198-224, Rule set F & G combined
rb_cibh_lt_50_NullAsFalse(a, r0) ==
    LET r == [r0 EXCEPT !.step = "Rule set F/G: Rectal bleeding + CIBH <50"]
        ruled ==
            IF a.anaemia = true
            THEN [r EXCEPT !.outcome = "Colonoscopy",
                           !.mapping = push(@, "RB + CIBH <50 + anaemia -> colonoscopy regardless of FIT.")]
            ELSE IF r.band = Str("10_100") \/ r.band = Str("gt_100")
                 THEN [r EXCEPT !.outcome = "Flexible sigmoidoscopy (FOS) -> if NAD, proceed to colonoscopy",
                                !.mapping = push(@, "RB + CIBH <50 no anaemia + FIT >=10 -> FOS then if NAD proceed to colonoscopy.")]
                 ELSE IF r.band = Str("lt_10")
                 THEN [r EXCEPT !.outcome = "Flexible sigmoidoscopy",
                                !.mapping = push(@, "RB + CIBH <50 no anaemia + FIT <10 -> flexible sigmoidoscopy.")]
                 ELSE [r EXCEPT !.outcome = "Needs FIT result"]
        noted ==
            IF a.anaemia = null
            THEN [ruled EXCEPT !.supplementary = push(@,
                    "Anaemia status missing: if anaemia present -> colonoscopy regardless of FIT.")]
            ELSE ruled
    IN  IF ageKnown(a) /\ a.age.v >= 50
        THEN [noted EXCEPT !.supplementary = push(@,
                "Age entered is not <50 for this pathway selection.")]
        ELSE noted

rb_cibh_lt_50_LowBandLost(a, r0) ==
    LET r == [r0 EXCEPT !.step = "Rule set F/G: Rectal bleeding + CIBH <50"]
        ruled ==
            IF a.anaemia = true
            THEN [r EXCEPT !.outcome = "Colonoscopy",
                           !.mapping = push(@, "RB + CIBH <50 + anaemia -> colonoscopy regardless of FIT.")]
            ELSE IF a.anaemia = false
            THEN IF r.band = Str("10_100") \/ r.band = Str("gt_100")
                 THEN [r EXCEPT !.outcome = "Flexible sigmoidoscopy (FOS) -> if NAD, proceed to colonoscopy",
                                !.mapping = push(@, "RB + CIBH <50 no anaemia + FIT >=10 -> FOS then if NAD proceed to colonoscopy.")]
                 ELSE [r EXCEPT !.outcome = "Needs FIT result"]
            ELSE [r EXCEPT !.outcome = "Needs anaemia status",
                           !.mapping = push(@, "If anaemia present -> colonoscopy regardless of FIT. If absent, follow FIT-band guidance for FOS/colonoscopy.")]
        noted ==
            IF a.anaemia = null
            THEN [ruled EXCEPT !.supplementary = push(@,
                    "Anaemia status missing: if anaemia present -> colonoscopy regardless of FIT.")]
            ELSE ruled
    IN  IF ageKnown(a) /\ a.age.v >= 50
        THEN [noted EXCEPT !.supplementary = push(@,
                "Age entered is not <50 for this pathway selection.")]
        ELSE noted

rb_cibh_lt_50(a, r0) ==
    LET r == [r0 EXCEPT !.step = "Rule set F/G: Rectal bleeding + CIBH <50"]
        ruled ==
            IF a.anaemia = true
            THEN [r EXCEPT !.outcome = "Colonoscopy",
                           !.mapping = push(@, "RB + CIBH <50 + anaemia -> colonoscopy regardless of FIT.")]
            ELSE IF a.anaemia = false
            THEN IF r.band = Str("10_100") \/ r.band = Str("gt_100")
                 THEN [r EXCEPT !.outcome = "Flexible sigmoidoscopy (FOS) -> if NAD, proceed to colonoscopy",
                                !.mapping = push(@, "RB + CIBH <50 no anaemia + FIT >=10 -> FOS then if NAD proceed to colonoscopy.")]
                 ELSE IF r.band = Str("lt_10")
                 THEN [r EXCEPT !.outcome = "Flexible sigmoidoscopy",
                                !.mapping = push(@, "RB + CIBH <50 no anaemia + FIT <10 -> flexible sigmoidoscopy.")]
                 ELSE [r EXCEPT !.outcome = "Needs FIT result"]
            ELSE [r EXCEPT !.outcome = "Needs anaemia status",
                           !.mapping = push(@, "If anaemia present -> colonoscopy regardless of FIT. If absent, follow FIT-band guidance for FOS/colonoscopy.")]
        noted ==
            IF a.anaemia = null
            THEN [ruled EXCEPT !.supplementary = push(@,
                    "Anaemia status missing: if anaemia present -> colonoscopy regardless of FIT.")]
            ELSE ruled
    IN  IF ageKnown(a) /\ a.age.v >= 50
        THEN [noted EXCEPT !.supplementary = push(@,
                "Age entered is not <50 for this pathway selection.")]
        ELSE noted

\* lines 227-245, Rule set H
wl_50_85(a, r0) ==
    LET r == [r0 EXCEPT !.step = "Rule set H: Weight loss age 50-85"]
        banded ==
            IF r.band = Str("10_100")
            THEN [r EXCEPT !.outcome = "CTC + CT thorax",
                           !.mapping = push(@, "Weight loss 50-85 + FIT 10-100 -> CTC + CT thorax.")]
            ELSE IF r.band = Str("gt_100")
            THEN [r EXCEPT !.outcome = "Colonoscopy",
                           !.mapping = push(@, "Weight loss 50-85 + FIT >100 -> colonoscopy.")]
            ELSE IF r.band = Str("lt_10")
            THEN [r EXCEPT !.outcome = FitLt10Text,
                           !.mapping = push(@, "Weight loss 50-85 + FIT <10 -> follow FIT <10 guidance.")]
            ELSE [r EXCEPT !.outcome = "Needs FIT result"]
    IN  IF ageKnown(a) /\ (a.age.v < 50 \/ a.age.v > 85)
        THEN [banded EXCEPT !.supplementary = push(@,
                "Age entered is outside 50-85 for this pathway selection.")]
        ELSE banded

\* lines 248-266, Rule set I
wl_lt_50_or_gt_85(a, r0) ==
    LET r == [r0 EXCEPT !.step = "Rule set I: Weight loss age <50 OR >85"]
        banded ==
            IF r.band = Str("10_100")
            THEN [r EXCEPT !.outcome = "CT thorax/abdomen/pelvis (CT TAP)",
                           !.mapping = push(@, "Weight loss <50 or >85 + FIT 10-100 -> CT TAP.")]
            ELSE IF r.band = Str("gt_100")
            THEN [r EXCEPT !.outcome = "Colonoscopy",
                           !.mapping = push(@, "Weight loss <50 or >85 + FIT >100 -> colonoscopy.")]
            ELSE IF r.band = Str("lt_10")
            THEN [r EXCEPT !.outcome = FitLt10Text,
                           !.mapping = push(@, "Weight loss <50 or >85 + FIT <10 -> follow FIT <10 guidance.")]
            ELSE [r EXCEPT !.outcome = "Needs FIT result"]
    IN  IF ageKnown(a) /\ a.age.v >= 50 /\ a.age.v <= 85
        THEN [banded EXCEPT !.supplementary = push(@,
                "Age entered is 50-85; consider selecting the 50-85 weight loss pathway.")]
        ELSE banded

\* lines 268-271, the default case of the switch
notCovered_KeepsDash(a, r) ==
    [r EXCEPT !.step = "Not covered"]

notCovered(a, r) ==
    [r EXCEPT !.step = "Not covered",
              !.outcome = "This selection is not covered by the provided flowchart rules."]

\* lines 87-272: the switch on pathway
dispatch_WeightLossSwapped(a, r) ==
    CASE a.pathway = "abdominal_mass" -> abdominal_mass(a, r)
      [] a.pathway = "anal_rectal_lesion" -> anal_rectal_lesion(a, r)
      [] a.pathway = "cibh_50_85" -> cibh_50_85(a, r)
      [] a.pathway = "cibh_gt_85" -> cibh_gt_85(a, r)
      [] a.pathway = "ida_gt_50" -> ida_gt_50(a, r)
      [] a.pathway = "ida_lt_50" -> ida_lt_50(a, r)
      [] a.pathway = "rb_cibh_lt_50" -> rb_cibh_lt_50(a, r)
      [] a.pathway = "wl_50_85" -> wl_lt_50_or_gt_85(a, r)
      [] a.pathway = "wl_lt_50_or_gt_85" -> wl_50_85(a, r)
      [] OTHER -> notCovered(a, r)

dispatch(a, r) ==
    CASE a.pathway = "abdominal_mass" -> abdominal_mass(a, r)
      [] a.pathway = "anal_rectal_lesion" -> anal_rectal_lesion(a, r)
      [] a.pathway = "cibh_50_85" -> cibh_50_85(a, r)
      [] a.pathway = "cibh_gt_85" -> cibh_gt_85(a, r)
      [] a.pathway = "ida_gt_50" -> ida_gt_50(a, r)
      [] a.pathway = "ida_lt_50" -> ida_lt_50(a, r)
      [] a.pathway = "rb_cibh_lt_50" -> rb_cibh_lt_50(a, r)
      [] a.pathway = "wl_50_85" -> wl_50_85(a, r)
      [] a.pathway = "wl_lt_50_or_gt_85" -> wl_lt_50_or_gt_85(a, r)
      [] OTHER -> notCovered(a, r)

\* lines 78-272: everything between the construction of res and finalize
body_DispatchBeforeOverride(a, r) ==
    IF a.pathway = "" THEN r
    ELSE IF a.recentImaging = true THEN recentImagingOverride(dispatch(a, r))
    ELSE dispatch(a, r)

body(a, r) ==
    IF a.recentImaging = true THEN recentImagingOverride(r)
    ELSE IF a.pathway = "" THEN r
    ELSE dispatch(a, r)

\* lines 45-273
decision(a) == finalize(a, body(a, newRes(a)))

-----------------------------------------------------------------------------
(* decision of the earlier revision (src/unnamed/part_000), which has the two
   pathways rb_cibh_lt_50_anaemia and rb_cibh_lt_50_no_anaemia and no
   recentImaging input. fitBand, the construction of res, finalize and the
   rule sets of the other eight pathways read the same in both revisions. *)

\* part_000 lines 50-64: the missing list
earlier_missingOf(a) ==
    (IF a.pathway = "" THEN <<"pathway selection">> ELSE <<>>)
    \o (IF a.pathway # "" /\ a.pathway # "anal_rectal_lesion"
        THEN (IF isAbsent(a.age) THEN <<"age">> ELSE <<>>)
             \o (IF isAbsent(a.fit) THEN <<"FIT test result">> ELSE <<>>)
        ELSE <<>>)
    \o (IF a.pathway = "abdominal_mass" /\ a.frailElderly = null
        THEN <<"frail/elderly status">> ELSE <<>>)
    \o (IF (a.pathway = "rb_cibh_lt_50_anaemia" \/ a.pathway = "rb_cibh_lt_50_no_anaemia")
           /\ a.anaemia = null
        THEN <<"anaemia status">> ELSE <<>>)

\* part_000 lines 50-75
earlier_newRes(a) ==
    [ missing |-> earlier_missingOf(a),
      band |-> fitBand(a.fit),
      outcome |-> EmDash,
      step |-> IF a.pathway # "" THEN "" ELSE "Choose a pathway",
      mapping |-> <<>>,
      supplementary |-> <<>> ]

\* part_000 lines 198-215, Rule set F
rb_cibh_lt_50_anaemia(a, r0) ==
    LET r == [r0 EXCEPT !.step = "Rule set F: Rectal bleeding + CIBH <50 with anaemia"]
        ruled ==
            IF a.anaemia = true
            THEN [r EXCEPT !.outcome = "Colonoscopy",
                           !.mapping = push(@, "RB + CIBH <50 + anaemia -> colonoscopy regardless of FIT.")]
            ELSE IF a.anaemia = false
            THEN [r EXCEPT !.outcome = "Anaemia not present -- select the 'WITHOUT anaemia' pathway",
                           !.mapping = push(@, "This pathway applies only if anaemia is present.")]
            ELSE [r EXCEPT !.outcome = "Needs anaemia status",
                           !.mapping = push(@, "If anaemia is present -> colonoscopy regardless of FIT.")]
    IN  IF ageKnown(a) /\ a.age.v >= 50
        THEN [ruled EXCEPT !.supplementary = push(@,
                "Age entered is not <50 for this pathway selection.")]
        ELSE ruled

\* part_000 lines 217-240, Rule set G
rb_cibh_lt_50_no_anaemia(a, r0) ==
    LET r == [r0 EXCEPT !.step = "Rule set G: Rectal bleeding + CIBH <50 without anaemia"]
    IN  IF a.anaemia = true
        THEN [r EXCEPT !.outcome = "Anaemia present -- select the 'WITH anaemia' pathway (colonoscopy regardless of FIT)",
                       !.mapping = push(@, "With anaemia, rule set F overrides FIT band.")]
        ELSE
          LET ruled ==
                IF r.band = Str("10_100") \/ r.band = Str("gt_100")
                THEN [r EXCEPT !.outcome = "Flexible sigmoidoscopy (FOS) -> if NAD, proceed to colonoscopy",
                               !.mapping = push(@, "RB + CIBH <50 no anaemia + FIT >=10 -> FOS then if NAD proceed to colonoscopy.")]
                ELSE IF r.band = Str("lt_10")
                THEN [r EXCEPT !.outcome = "Flexible sigmoidoscopy",
                               !.mapping = push(@, "RB + CIBH <50 no anaemia + FIT <10 -> flexible sigmoidoscopy.")]
                ELSE [r EXCEPT !.outcome = "Needs FIT result"]
              noted ==
                IF a.anaemia = null
                THEN [ruled EXCEPT !.supplementary = push(@,
                        "Anaemia status missing: if anaemia present -> colonoscopy regardless of FIT.")]
                ELSE ruled
          IN  IF ageKnown(a) /\ a.age.v >= 50
              THEN [noted EXCEPT !.supplementary = push(@,
                      "Age entered is not <50 for this pathway selection.")]
              ELSE noted

\* part_000 lines 87-288: the switch on pathway
earlier_dispatch(a, r) ==
    CASE a.pathway = "abdominal_mass" -> abdominal_mass(a, r)
      [] a.pathway = "anal_rectal_lesion" -> anal_rectal_lesion(a, r)
      [] a.pathway = "cibh_50_85" -> cibh_50_85(a, r)
      [] a.pathway = "cibh_gt_85" -> cibh_gt_85(a, r)
      [] a.pathway = "ida_gt_50" -> ida_gt_50(a, r)
      [] a.pathway = "ida_lt_50" -> ida_lt_50(a, r)
      [] a.pathway = "rb_cibh_lt_50_anaemia" -> rb_cibh_lt_50_anaemia(a, r)
      [] a.pathway = "rb_cibh_lt_50_no_anaemia" -> rb_cibh_lt_50_no_anaemia(a, r)
      [] a.pathway = "wl_50_85" -> wl_50_85(a, r)
      [] a.pathway = "wl_lt_50_or_gt_85" -> wl_lt_50_or_gt_85(a, r)
      [] OTHER -> notCovered(a, r)

\* part_000 lines 85-288
earlier_body(a, r) == IF a.pathway = "" THEN r ELSE earlier_dispatch(a, r)

\* part_000 lines 49-289
earlier_decision(a) == finalize(a, earlier_body(a, earlier_newRes(a)))

-----------------------------------------------------------------------------
(* Inputs *)

MaxSelected == 2

\* what the handlers of the form are given
ToggleKeys == {"abdominal_mass", "anal_rectal_lesion", "ida_lt_50", "rb_cibh_lt_50", "wl_50_85"}
AgeStrs == {"", "abc", "60"}
FitStrs == {"", "5", "50", "500"}
TriState == {null, true, false}
WhoStatuses == {null, Num(0), Num(1), Num(2), Num(3), Num(4)}

\* what one call of decision is given
Ages == {null, NaN, Num(49), Num(50), Num(51), Num(85), Num(86)}
Fits == {null, NaN, Num(0), Num(9), Num(10), Num(50), Num(100), Num(101)}
UnknownPathway == "rb_cibh_lt_50_anaemia"
PathwayArgs == PathwayKeys \cup {"", UnknownPathway}

ArgSpace ==
    [ pathway : PathwayArgs, age : Ages, fit : Fits, frailElderly : TriState,
      anaemia : TriState, whoStatus : WhoStatuses, recentImaging : TriState ]

-----------------------------------------------------------------------------
(* Text functions of JavaScript used by App and mergeOutcomes *)

charAt(s, i) == SubSeq(s, i, i)

UpperCase == "ABCDEFGHIJKLMNOPQRSTUVWXYZ"
LowerCase == "abcdefghijklmnopqrstuvwxyz"
Digits == "0123456789"

indexIn(alphabet, c) ==
    IF \E i \in 1..Len(alphabet) : charAt(alphabet, i) = c
    THEN CHOOSE i \in 1..Len(alphabet) : charAt(alphabet, i) = c
    ELSE 0

lowerChar(c) ==
    LET i == indexIn(UpperCase, c) IN IF i = 0 THEN c ELSE charAt(LowerCase, i)

\* by halves, so that the depth of the recursion stays small
RECURSIVE toLowerCase(_)
toLowerCase(s) ==
    IF Len(s) = 0 THEN ""
    ELSE IF Len(s) = 1 THEN lowerChar(s)
    ELSE LET h == Len(s) \div 2
         IN  toLowerCase(SubSeq(s, 1, h)) \o toLowerCase(SubSeq(s, h + 1, Len(s)))

\* String.prototype.includes
includes(s, p) ==
    \E i \in 1..(Len(s) - Len(p) + 1) : SubSeq(s, i, i + Len(p) - 1) = p

RECURSIVE trimStart(_)
trimStart(s) ==
    IF s # "" /\ charAt(s, 1) = " " THEN trimStart(Tail(s)) ELSE s

RECURSIVE trimEnd(_)
trimEnd(s) ==
    IF s # "" /\ charAt(s, Len(s)) = " " THEN trimEnd(SubSeq(s, 1, Len(s) - 1)) ELSE s

trim(s) == trimEnd(trimStart(s))

isDigits(s) == s # "" /\ \A i \in 1..Len(s) : indexIn(Digits, charAt(s, i)) # 0

RECURSIVE digitsValue(_)
digitsValue(s) ==
    IF s = "" THEN 0
    ELSE 10 * digitsValue(SubSeq(s, 1, Len(s) - 1))
         + (indexIn(Digits, charAt(s, Len(s))) - 1)

\* Number(string) on strings of decimal digits, blanks, and anything else
Number(s) ==
    LET u == trim(s)
    IN  IF u = "" THEN Num(0)
        ELSE IF isDigits(u) THEN Num(digitsValue(u))
        ELSE NaN

-----------------------------------------------------------------------------
(* App: derived values of one render *)

\* lines 583-584
parseField(str) == IF trim(str) = "" THEN null ELSE Number(str)

age == parseField(ageStr)
fit == parseField(fitStr)

argsFor(pid) ==
    [ pathway |-> pid, age |-> age, fit |-> fit, frailElderly |-> frailElderly,
      anaemia |-> anaemia, whoStatus |-> whoStatus, recentImaging |-> recentImaging ]

\* lines 587, 749
currentSelection ==
    IF Len(selectedPaths) # 0 THEN selectedPaths
    ELSE IF pathway # "" THEN <<pathway>> ELSE <<>>

-----------------------------------------------------------------------------
(* mergeOutcomes *)

\* line 278: Array.from(new Set(arr.flat())), first occurrence kept
dedupe_KeepsAll(list, seen) == seen \o list

RECURSIVE dedupe(_, _)
dedupe(list, seen) ==
    IF list = <<>> THEN seen
    ELSE IF \E i \in 1..Len(seen) : seen[i] = Head(list)
         THEN dedupe(Tail(list), seen)
         ELSE dedupe(Tail(list), Append(seen, Head(list)))

RECURSIVE flat(_)
flat(lists) == IF lists = <<>> THEN <<>> ELSE Head(lists) \o flat(Tail(lists))

union(lists) == dedupe(flat(lists), <<>>)

\* line 285
hasFaceToFace(text) == includes(toLowerCase(text), "face-to-face")

\* lines 299-313
canonicaliseToken(tok) ==
    LET s == trim(tok)
        low == toLowerCase(s)
    IN  IF s = "" THEN null
        ELSE IF includes(low, "colonoscopy") THEN [label |-> "Colonoscopy", prio |-> 100]
        ELSE IF includes(low, "ogd") THEN [label |-> "OGD", prio |-> 95]
        ELSE IF includes(low, "ct abdomen") \/ includes(low, "ct ap")
                \/ includes(low, "ct abdomen & pelvis")
             THEN [label |-> "CT abdomen & pelvis (CT AP)", prio |-> 90]
        ELSE IF includes(low, "ct colonography") \/ includes(low, "ctc")
             THEN [label |-> "CT colonography (CTC)", prio |-> 88]
        ELSE IF includes(low, "ct tap") \/ includes(low, "ct thorax/abdomen/pelvis")
                \/ includes(low, "ct thorax")
             THEN [label |-> "CT thorax/abdomen/pelvis (CT TAP)", prio |-> 86]
        ELSE IF includes(low, "tagged ct") THEN [label |-> "Tagged CT scan", prio |-> 80]
        ELSE IF includes(low, "flexible sigmoidoscopy") \/ includes(low, "fos")
             THEN [label |-> "Flexible sigmoidoscopy", prio |-> 70]
        ELSE null

\* line 320: text.split(/\s*(?:\+|->|,|;)\s*/): cut at every separator; the
\* white space the pattern takes on both sides is taken off the pieces
isSeparatorAt(s, i) ==
    \/ charAt(s, i) \in {"+", ",", ";"}
    \/ (i < Len(s) /\ SubSeq(s, i, i + 1) = "->")

separatorLen(s, i) == IF charAt(s, i) \in {"+", ",", ";"} THEN 1 ELSE 2

RECURSIVE cut(_)
cut(s) ==
    IF \E i \in 1..Len(s) : isSeparatorAt(s, i)
    THEN LET i == CHOOSE k \in 1..Len(s) :
                    /\ isSeparatorAt(s, k)
                    /\ \A j \in 1..(k - 1) : ~isSeparatorAt(s, j)
         IN  <<SubSeq(s, 1, i - 1)>> \o cut(SubSeq(s, i + separatorLen(s, i), Len(s)))
    ELSE <<s>>

RECURSIVE trimAll(_)
trimAll(list) ==
    IF list = <<>> THEN <<>> ELSE <<trim(Head(list))>> \o trimAll(Tail(list))

\* .filter(Boolean) on strings
RECURSIVE nonEmpty(_)
nonEmpty(list) ==
    IF list = <<>> THEN <<>>
    ELSE IF Head(list) = "" THEN nonEmpty(Tail(list))
    ELSE <<Head(list)>> \o nonEmpty(Tail(list))

split(text) == nonEmpty(trimAll(cut(text)))

\* The texts decision can return, and what lines 285, 320 and 322 compute
\* from each of them: tables, so that TLC computes them once and not in
\* every state.
OutcomeTexts == { decision(a).outcome : a \in ArgSpace }

faceToFaceOf == [ text \in OutcomeTexts |-> hasFaceToFace(text) ]

partsOf == [ text \in OutcomeTexts |-> split(text) ]

PartTexts == UNION { { partsOf[text][i] : i \in 1..Len(partsOf[text]) } : text \in OutcomeTexts }

canonOf == [ part \in PartTexts |-> canonicaliseToken(part) ]

\* lines 284-285: some outcome mandates face-to-face
escalates_FirstOnly(outcomes) == faceToFaceOf[outcomes[1].outcome]

escalates(outcomes) == \E i \in 1..Len(outcomes) : faceToFaceOf[outcomes[i].outcome]

\* tokenMap is a Map: a list of [label, prio] entries in insertion order
mapHas(m, label) == \E i \in 1..Len(m) : m[i].label = label

mapGet(m, label) == m[CHOOSE i \in 1..Len(m) : m[i].label = label].prio

mapSet(m, label, prio) ==
    IF mapHas(m, label)
    THEN [i \in 1..Len(m) |-> IF m[i].label = label THEN [label |-> label, prio |-> prio] ELSE m[i]]
    ELSE Append(m, [label |-> label, prio |-> prio])

RECURSIVE mapDelete(_, _)
mapDelete(m, label) ==
    IF m = <<>> THEN <<>>
    ELSE IF Head(m).label = label THEN mapDelete(Tail(m), label)
    ELSE <<Head(m)>> \o mapDelete(Tail(m), label)

\* lines 321-326: the inner loop over the parts of one outcome
RECURSIVE addParts(_, _)
addParts(m, parts) ==
    IF parts = <<>> THEN m
    ELSE LET canon == canonOf[Head(parts)]
         IN  IF canon = null THEN addParts(m, Tail(parts))
             ELSE IF ~mapHas(m, canon.label) \/ canon.prio > mapGet(m, canon.label)
                  THEN addParts(mapSet(m, canon.label, canon.prio), Tail(parts))
                  ELSE addParts(m, Tail(parts))

\* lines 317-327: the outer loop over the outcomes
RECURSIVE addOutcomes(_, _)
addOutcomes(m, outcomes) ==
    IF outcomes = <<>> THEN m
    ELSE addOutcomes(addParts(m, partsOf[Head(outcomes).outcome]), Tail(outcomes))

suppress_KeepsBoth(m) == m

\* lines 331-333
suppress(m) ==
    IF mapHas(m, "Colonoscopy") /\ mapHas(m, "Flexible sigmoidoscopy")
    THEN mapDelete(m, "Flexible sigmoidoscopy")
    ELSE m

\* a.label.localeCompare(b.label) < 0, as the order of the characters in
\* CollationOrder, a shorter string before its extensions
CollationOrder == " &()/abcdefghijklmnopqrstuvwxyz"

RECURSIVE labelBefore(_, _)
labelBefore(x, y) ==
    IF y = "" THEN FALSE
    ELSE IF x = "" THEN TRUE
    ELSE LET cx == indexIn(CollationOrder, lowerChar(charAt(x, 1)))
             cy == indexIn(CollationOrder, lowerChar(charAt(y, 1)))
         IN  IF cx # cy THEN cx < cy ELSE labelBefore(Tail(x), Tail(y))

sortsBefore_Never(x, y) == FALSE

\* line 338: the comparator says x goes before y
sortsBefore(x, y) ==
    x.prio > y.prio \/ (x.prio = y.prio /\ labelBefore(x.label, y.label))

RECURSIVE insertSorted(_, _)
insertSorted(sorted, x) ==
    IF sorted = <<>> THEN <<x>>
    ELSE IF sortsBefore(x, Head(sorted)) THEN <<x>> \o sorted
    ELSE <<Head(sorted)>> \o insertSorted(Tail(sorted), x)

sort_InsertionOrder(m) == m

RECURSIVE sort(_)
sort(m) ==
    IF m = <<>> THEN <<>>
    ELSE insertSorted(sort(SubSeq(m, 1, Len(m) - 1)), m[Len(m)])

RECURSIVE join(_, _)
join(list, sep) ==
    IF list = <<>> THEN ""
    ELSE IF Len(list) = 1 THEN list[1]
    ELSE list[1] \o sep \o join(Tail(list), sep)

\* lines 336-339
mergedTokens(outcomes) ==
    LET sorted == sort(suppress(addOutcomes(<<>>, outcomes)))
    IN  [i \in 1..Len(sorted) |-> sorted[i].label]

stepsOf_Reversed(outcomes) ==
    nonEmpty([i \in 1..Len(outcomes) |-> outcomes[Len(outcomes) + 1 - i].step])

\* line 343
stepsOf(outcomes) ==
    nonEmpty([i \in 1..Len(outcomes) |-> outcomes[i].step])

\* lines 278-353: the record mergeOutcomes builds
mergedRecord(outcomes) ==
    LET missing == union([i \in 1..Len(outcomes) |-> outcomes[i].missing])
        mapping == union([i \in 1..Len(outcomes) |-> outcomes[i].mapping])
        supplementary == union([i \in 1..Len(outcomes) |-> outcomes[i].supplementary])
    IN  IF escalates(outcomes)
        THEN [ per_pathway |-> outcomes,
               merged_outcome |-> "Face-to-face assessment",
               merged_step |-> "Face-to-face (one or more pathways)",
               merged_pathway |-> null,
               missing |-> missing,
               mapping |-> mapping,
               supplementary |-> supplementary ]
        ELSE
          LET tokens == mergedTokens(outcomes)
          IN  [ per_pathway |-> outcomes,
                merged_outcome |-> IF Len(tokens) # 0 THEN join(tokens, " + ") ELSE EmDash,
                merged_step |-> join(stepsOf(outcomes), " || "),
                merged_pathway |-> null,
                missing |-> missing,
                mapping |-> mapping,
                supplementary |-> supplementary ]

mergeOutcomes_NoEmptyCheck(outcomes) == mergedRecord(outcomes)

\* lines 276-354
mergeOutcomes(outcomes) ==
    IF Len(outcomes) = 0 THEN null ELSE mergedRecord(outcomes)

-----------------------------------------------------------------------------
(* App: the memoised values of one render *)

\* lines 586-592: decision's result with the pathway key added
perResults ==
    [ i \in 1..Len(currentSelection) |->
        LET pid == currentSelection[i]
            d == decision(argsFor(pid))
        IN  [ missing |-> d.missing, band |-> d.band, outcome |-> d.outcome,
              step |-> d.step, mapping |-> d.mapping,
              supplementary |-> d.supplementary, pathway |-> pid ] ]

\* line 594
mergedResult == mergeOutcomes(perResults)

\* x || fallback on a string
orElse(x, fallback) == IF x = "" THEN fallback ELSE x

\* lines 596-608
result ==
    IF Len(perResults) = 0 THEN decision(argsFor(pathway))
    ELSE IF Len(perResults) = 1
    THEN perResults[1]
    ELSE [ missing |-> mergedResult.missing,
           band |-> null,
           outcome |-> orElse(mergedResult.merged_outcome, EmDash),
           step |-> mergedResult.merged_step,
           mapping |-> mergedResult.mapping,
           supplementary |-> mergedResult.supplementary ]

\* lines 926-942: the outcome text of the outcome panel
displayedOutcome ==
    IF Len(perResults) > 1 THEN mergedResult.merged_outcome ELSE result.outcome

-----------------------------------------------------------------------------
(* App: the form state and its handlers *)

NoCall ==
    /\ args = [ pathway |-> "", age |-> null, fit |-> null, frailElderly |-> null,
                anaemia |-> null, whoStatus |-> null, recentImaging |-> null ]
    /\ res = null
    /\ pc = "idle"

\* lines 570-577
AppInit ==
    /\ pathway = ""
    /\ selectedPaths = <<>>
    /\ ageStr = ""
    /\ fitStr = ""
    /\ frailElderly = null
    /\ anaemia = null
    /\ recentImaging = null
    /\ whoStatus = null

Init == AppInit /\ NoCall

RECURSIVE without(_, _)
without(list, key) ==
    IF list = <<>> THEN <<>>
    ELSE IF Head(list) = key THEN without(Tail(list), key)
    ELSE <<Head(list)>> \o without(Tail(list), key)

listIncludes(list, key) == \E i \in 1..Len(list) : list[i] = key

togglePathway_Prepends(key) ==
    LET next == IF listIncludes(selectedPaths, key)
                THEN without(selectedPaths, key)
                ELSE <<key>> \o selectedPaths
    IN  /\ Len(next) <= MaxSelected
        /\ selectedPaths' = next
        /\ pathway' = IF Len(next) # 0 THEN orElse(next[1], "") ELSE ""
        /\ UNCHANGED <<ageStr, fitStr, frailElderly, anaemia, recentImaging, whoStatus>>
        /\ UNCHANGED callVars

\* lines 610-614
togglePathway(key) ==
    LET next == IF listIncludes(selectedPaths, key)
                THEN without(selectedPaths, key)
                ELSE Append(selectedPaths, key)
    IN  /\ Len(next) <= MaxSelected
        /\ selectedPaths' = next
        /\ pathway' = IF Len(next) # 0 THEN orElse(next[1], "") ELSE ""
        /\ UNCHANGED <<ageStr, fitStr, frailElderly, anaemia, recentImaging, whoStatus>>
        /\ UNCHANGED callVars

\* line 808
setAgeStr(value) ==
    /\ ageStr' = value
    /\ UNCHANGED <<pathway, selectedPaths, fitStr, frailElderly, anaemia, recentImaging, whoStatus>>
    /\ UNCHANGED callVars

\* line 818
setFitStr(value) ==
    /\ fitStr' = value
    /\ UNCHANGED <<pathway, selectedPaths, ageStr, frailElderly, anaemia, recentImaging, whoStatus>>
    /\ UNCHANGED callVars

\* lines 749, 828-845: the buttons exist while abdominal_mass is selected
showFrail == listIncludes(currentSelection, "abdominal_mass")

setFrailElderly(value) ==
    /\ showFrail
    /\ frailElderly' = value
    /\ UNCHANGED <<pathway, selectedPaths, ageStr, fitStr, anaemia, recentImaging, whoStatus>>
    /\ UNCHANGED callVars

\* lines 750, 850-867: the buttons exist while rb_cibh_lt_50 is selected
showAnaemia == listIncludes(currentSelection, "rb_cibh_lt_50")

setAnaemia(value) ==
    /\ showAnaemia
    /\ anaemia' = value
    /\ UNCHANGED <<pathway, selectedPaths, ageStr, fitStr, frailElderly, recentImaging, whoStatus>>
    /\ UNCHANGED callVars

\* lines 904-906
setRecentImaging(value) ==
    /\ recentImaging' = value
    /\ UNCHANGED <<pathway, selectedPaths, ageStr, fitStr, frailElderly, anaemia, whoStatus>>
    /\ UNCHANGED callVars

\* lines 880-883
setWhoStatus(value) ==
    /\ whoStatus' = value
    /\ UNCHANGED <<pathway, selectedPaths, ageStr, fitStr, frailElderly, anaemia, recentImaging>>
    /\ UNCHANGED callVars

\* lines 724-736: selectedPaths is not among the fields reset clears
reset ==
    /\ pathway' = ""
    /\ ageStr' = ""
    /\ fitStr' = ""
    /\ frailElderly' = null
    /\ anaemia' = null
    /\ recentImaging' = null
    /\ whoStatus' = null
    /\ UNCHANGED selectedPaths
    /\ UNCHANGED callVars

Next ==
    \/ \E key \in ToggleKeys : togglePathway(key)
    \/ \E value \in AgeStrs : setAgeStr(value)
    \/ \E value \in FitStrs : setFitStr(value)
    \/ \E value \in TriState : setFrailElderly(value)
    \/ \E value \in TriState : setAnaemia(value)
    \/ \E value \in TriState : setRecentImaging(value)
    \/ \E value \in WhoStatuses : setWhoStatus(value)
    \/ reset

Spec == Init /\ [][Next]_vars

\* the form used without the reset button
NextWithoutReset ==
    \/ \E key \in ToggleKeys : togglePathway(key)
    \/ \E value \in AgeStrs : setAgeStr(value)
    \/ \E value \in FitStrs : setFitStr(value)
    \/ \E value \in TriState : setFrailElderly(value)
    \/ \E value \in TriState : setAnaemia(value)
    \/ \E value \in TriState : setRecentImaging(value)
    \/ \E value \in WhoStatuses : setWhoStatus(value)

NoResetSpec == Init /\ [][NextWithoutReset]_vars

-----------------------------------------------------------------------------
(* One call of decision, statement by statement *)

CallInit ==
    /\ AppInit
    /\ args \in ArgSpace
    /\ res = null
    /\ pc = "entry"

\* lines 46-68
BuildRes ==
    /\ pc = "entry"
    /\ res' = newRes(args)
    /\ pc' = "built"
    /\ UNCHANGED <<args, appVars>>

\* lines 78-272: the override, the missing pathway or the switch
RunBody ==
    /\ pc = "built"
    /\ res' = body(args, res)
    /\ pc' = "finalize"
    /\ UNCHANGED <<args, appVars>>

\* lines 70-76, then the return
Finalize ==
    /\ pc = "finalize"
    /\ res' = finalize(args, res)
    /\ pc' = "returned"
    /\ UNCHANGED <<args, appVars>>

CallNext ==
    \/ BuildRes
    \/ RunBody
    \/ Finalize

DecisionSpec == CallInit /\ [][CallNext]_vars

-----------------------------------------------------------------------------
(* One render of App with several pathways selectable: perResults and
   mergedResult, from a state of the form *)

MergeWhoStatuses == {null, Num(3)}
MergeRecentImaging == {null, true}
MergeAgeStrs == {"", "60"}

Selections ==
    { sel \in UNION { [1..k -> PathwayKeys] : k \in 0..MaxSelected } :
        \A i, j \in 1..Len(sel) : i # j => sel[i] # sel[j] }

RenderInit ==
    /\ selectedPaths \in Selections
    /\ pathway = (IF Len(selectedPaths) # 0 THEN selectedPaths[1] ELSE "")
    /\ ageStr \in MergeAgeStrs
    /\ fitStr \in FitStrs
    /\ frailElderly \in TriState
    /\ anaemia \in TriState
    /\ recentImaging \in MergeRecentImaging
    /\ whoStatus \in MergeWhoStatuses
    /\ args = <<>>
    /\ res = null
    /\ pc = "render"

\* lines 586-594
Render ==
    /\ pc = "render"
    /\ args' = perResults
    /\ res' = mergeOutcomes(perResults)
    /\ pc' = "rendered"
    /\ UNCHANGED appVars

RenderNext == Render

MergeSpec == RenderInit /\ [][RenderNext]_vars

-----------------------------------------------------------------------------
(* Properties of decision, over DecisionSpec *)

returned == pc = "returned"

RecentImagingEntry == "Recent imaging/colonoscopy within 12 months -> face-to-face appointment."
WhoEntry == "WHO status 3-4 -> face-to-face assessment."
NotCoveredText == "This selection is not covered by the provided flowchart rules."

who34 == args.whoStatus \in {Num(3), Num(4)}

noOverride == args.recentImaging # true /\ ~who34

has(list, x) == \E i \in 1..Len(list) : list[i] = x

\* C1 as stated: with recentImaging true the returned outcome is
\* "Face-to-face appointment" for every pathway and every whoStatus, 3 and 4
\* included, and the trace holds the recent-imaging entry alone.
C1_AppointmentForEveryWho ==
    (returned /\ args.recentImaging = true) =>
        /\ res.outcome = "Face-to-face appointment"
        /\ res.mapping = <<RecentImagingEntry>>

\* C1 amended: with recentImaging true no rule set runs (step and
\* supplementary stay as constructed, the trace starts with the recent-imaging
\* entry); when whoStatus is not 3 or 4 the outcome is "Face-to-face
\* appointment" and that entry is the whole trace; when whoStatus is 3 or 4
\* finalize still runs: the outcome is "Face-to-face assessment" and the WHO
\* entry follows the recent-imaging entry.
C1_RecentImagingShortCircuit ==
    (returned /\ args.recentImaging = true) =>
        /\ res.step = (IF args.pathway = "" THEN "Choose a pathway" ELSE "")
        /\ res.supplementary = <<>>
        /\ ~who34 => /\ res.outcome = "Face-to-face appointment"
                     /\ res.mapping = <<RecentImagingEntry>>
        /\ who34 => /\ res.outcome = "Face-to-face assessment"
                    /\ res.mapping = <<RecentImagingEntry, WhoEntry>>

C1_Witness ==
    /\ returned
    /\ args.recentImaging = true
    /\ args.whoStatus = Num(3)
    /\ args.pathway = "ida_lt_50"
    /\ res.mapping = <<RecentImagingEntry, WhoEntry>>

\* C2: for every pathway (selected, empty or unrecognised) and every value of
\* the other inputs, whoStatus 3 or 4 makes the returned outcome
\* "Face-to-face assessment"; with whoStatus null, 0, 1 or 2 the returned
\* result is the result as it was before finalize.
C2_WhoOverride ==
    returned =>
        /\ who34 => res.outcome = "Face-to-face assessment"
        /\ ~who34 => res = body(args, newRes(args))

C2_Witness ==
    /\ returned
    /\ args.whoStatus = Num(3)
    /\ args.recentImaging = false
    /\ args.pathway = "ida_lt_50"
    /\ res.outcome = "Face-to-face assessment"

\* The rule table of the FIT-band-driven pathways, as the claim lists it
tableOutcome(pw, band) ==
    CASE pw = "abdominal_mass" ->
            (IF band = "10_100" THEN "CT colonography (CTC)"
             ELSE IF band = "gt_100" THEN "Colonoscopy"
             ELSE "CT abdomen & pelvis (CT AP)")
      [] pw = "cibh_50_85" ->
            (IF band = "10_100" THEN "CT colonography (CTC)"
             ELSE IF band = "gt_100" THEN "Colonoscopy"
             ELSE FitLt10Text)
      [] pw = "cibh_gt_85" ->
            (IF band = "10_100" THEN "Tagged CT scan"
             ELSE IF band = "gt_100" THEN "Colonoscopy"
             ELSE FitLt10Text)
      [] pw = "ida_gt_50" ->
            (IF band = "gt_100" THEN "Colonoscopy + OGD" ELSE "CTC + OGD")
      [] pw = "wl_50_85" ->
            (IF band = "10_100" THEN "CTC + CT thorax"
             ELSE IF band = "gt_100" THEN "Colonoscopy"
             ELSE FitLt10Text)
      [] pw = "wl_lt_50_or_gt_85" ->
            (IF band = "10_100" THEN "CT thorax/abdomen/pelvis (CT TAP)"
             ELSE IF band = "gt_100" THEN "Colonoscopy"
             ELSE FitLt10Text)

tableStep(pw) ==
    CASE pw = "abdominal_mass" -> "Rule set A: Abdominal mass"
      [] pw = "anal_rectal_lesion" -> "Rule set: Anal or rectal lesion"
      [] pw = "cibh_50_85" -> "Rule set B: CIBH age 50-85"
      [] pw = "cibh_gt_85" -> "Rule set C: CIBH age >85"
      [] pw = "ida_gt_50" -> "Rule set D: IDA age >50"
      [] pw = "ida_lt_50" -> "Rule set E: IDA age <50"
      [] pw = "wl_50_85" -> "Rule set H: Weight loss age 50-85"
      [] pw = "wl_lt_50_or_gt_85" -> "Rule set I: Weight loss age <50 OR >85"

\* the band of a present FIT value, by the thresholds 10 and 100
bandOfValue(n) == IF n < 10 THEN "lt_10" ELSE IF n <= 100 THEN "10_100" ELSE "gt_100"

fitPresent == args.fit.t = "num"

BandDriven == {"abdominal_mass", "cibh_50_85", "cibh_gt_85", "ida_gt_50", "wl_50_85", "wl_lt_50_or_gt_85"}

\* C3: with no override active, each FIT-band-driven pathway returns the
\* outcome of the rule table for every present FIT value (abdominal_mass when
\* frailElderly is not true), ida_lt_50 returns "Colonoscopy + OGD" for every
\* band and for absent FIT, anal_rectal_lesion returns "Face-to-face
\* assessment", and each sets its own rule label.
C3_RuleTable ==
    (returned /\ noOverride) =>
        /\ (args.pathway \in BandDriven /\ fitPresent
              /\ (args.pathway = "abdominal_mass" => args.frailElderly # true))
            => res.outcome = tableOutcome(args.pathway, bandOfValue(args.fit.v))
        /\ args.pathway = "ida_lt_50" => res.outcome = "Colonoscopy + OGD"
        /\ args.pathway = "anal_rectal_lesion" => res.outcome = "Face-to-face assessment"
        /\ args.pathway \in (BandDriven \cup {"ida_lt_50", "anal_rectal_lesion"})
            => res.step = tableStep(args.pathway)

C3_Witness ==
    /\ returned
    /\ noOverride
    /\ args.pathway = "wl_50_85"
    /\ args.fit = Num(100)
    /\ res.outcome = "CTC + CT thorax"
    /\ res.step = "Rule set H: Weight loss age 50-85"

\* C4: with no override active, rb_cibh_lt_50 returns Colonoscopy when anaemia
\* is true whatever the FIT value (absent included); when anaemia is false the
\* staged outcome for bands 10-100 and >100 and "Flexible sigmoidoscopy" for
\* band <10; and "Needs anaemia status" when anaemia is null whatever the FIT
\* value.
C4_RectalBleeding ==
    (returned /\ noOverride /\ args.pathway = "rb_cibh_lt_50") =>
        /\ args.anaemia = true => res.outcome = "Colonoscopy"
        /\ (args.anaemia = false /\ fitPresent) =>
              res.outcome = (IF args.fit.v >= 10
                             THEN "Flexible sigmoidoscopy (FOS) -> if NAD, proceed to colonoscopy"
                             ELSE "Flexible sigmoidoscopy")
        /\ args.anaemia = null => res.outcome = "Needs anaemia status"

C4_Witness ==
    /\ returned
    /\ noOverride
    /\ args.pathway = "rb_cibh_lt_50"
    /\ args.anaemia = null
    /\ args.fit = Num(101)
    /\ res.outcome = "Needs anaemia status"

\* C5: the band computed for a present FIT value is lt_10 below 10, 10_100
\* from 10 to 100 with both ends included, gt_100 above 100; a null or NaN
\* value has no band; 0 is present and lt_10.
C5_FitBand ==
    (pc # "entry") =>
        /\ fitPresent => res.band = Str(bandOfValue(args.fit.v))
        /\ args.fit \in {null, NaN} => res.band = null
        /\ args.fit = Num(0) => res.band = Str("lt_10")

C5_Witness ==
    /\ returned
    /\ args.fit = Num(100)
    /\ res.band = Str("10_100")

\* C6: abdominal_mass with frailElderly true and no override returns
\* "CT abdomen & pelvis (CT AP)" for every FIT value of every band and for an
\* absent FIT value.
C6_FrailAbdominalMass ==
    (returned /\ noOverride /\ args.pathway = "abdominal_mass" /\ args.frailElderly = true) =>
        /\ res.outcome = "CT abdomen & pelvis (CT AP)"
        /\ res.mapping = <<"Abdominal mass + frail/elderly -> CT AP.">>

C6_Witness ==
    /\ returned
    /\ noOverride
    /\ args.pathway = "abdominal_mass"
    /\ args.frailElderly = true
    /\ args.fit = Num(101)
    /\ res.outcome = "CT abdomen & pelvis (CT AP)"

\* C7: for every selected pathway but anal_rectal_lesion, "age" is in missing
\* exactly when age is absent and "FIT test result" exactly when fit is
\* absent, and the returned outcome is a non-empty string; for
\* anal_rectal_lesion neither name is in missing.
C7_AgeFitMissing ==
    (returned /\ args.pathway # "") =>
        /\ args.pathway # "anal_rectal_lesion" =>
              /\ has(res.missing, "age") <=> isAbsent(args.age)
              /\ has(res.missing, "FIT test result") <=> isAbsent(args.fit)
              /\ res.outcome # ""
        /\ args.pathway = "anal_rectal_lesion" =>
              /\ ~has(res.missing, "age")
              /\ ~has(res.missing, "FIT test result")

C7_Witness ==
    /\ returned
    /\ noOverride
    /\ args.pathway = "cibh_50_85"
    /\ args.age = null
    /\ args.fit = null
    /\ res.missing = <<"age", "FIT test result">>
    /\ res.outcome = "Needs FIT result"

CanonicalMissing ==
    <<"pathway selection", "age", "FIT test result", "frail/elderly status", "anaemia status">>

rankOfMissing(x) == CHOOSE k \in 1..Len(CanonicalMissing) : CanonicalMissing[k] = x

\* C8: "pathway selection" is in missing exactly when no pathway is given,
\* "frail/elderly status" exactly when the pathway is abdominal_mass and
\* frailElderly is null, "anaemia status" exactly when the pathway is
\* rb_cibh_lt_50 and anaemia is null; no name occurs twice and the names stand
\* in the order pathway selection, age, FIT test result, pathway flag.
C8_MissingList ==
    returned =>
        /\ has(res.missing, "pathway selection") <=> args.pathway = ""
        /\ has(res.missing, "frail/elderly status")
              <=> (args.pathway = "abdominal_mass" /\ args.frailElderly = null)
        /\ has(res.missing, "anaemia status")
              <=> (args.pathway = "rb_cibh_lt_50" /\ args.anaemia = null)
        /\ \A i \in 1..Len(res.missing) : has(CanonicalMissing, res.missing[i])
        /\ \A i, j \in 1..Len(res.missing) :
              i < j => rankOfMissing(res.missing[i]) < rankOfMissing(res.missing[j])

C8_Witness ==
    /\ returned
    /\ args.pathway = "abdominal_mass"
    /\ res.missing = <<"age", "FIT test result", "frail/elderly status">>

\* C9 as stated: with no override active, an empty pathway and an
\* unrecognised pathway both return the not-covered message.
C9_NotCoveredAlsoWhenEmpty ==
    (returned /\ noOverride /\ args.pathway \notin PathwayKeys) =>
        res.outcome = NotCoveredText

\* C9 amended: with no override active, a non-empty pathway that is none of
\* the known keys returns the not-covered message with rule label
\* "Not covered"; with no pathway selected decision returns before the switch
\* with the outcome "--", the rule label "Choose a pathway" and
\* "pathway selection" alone in missing.
C9_NotCovered ==
    (returned /\ noOverride /\ args.pathway \notin PathwayKeys) =>
        /\ args.pathway # "" => /\ res.outcome = NotCoveredText
                                /\ res.step = "Not covered"
        /\ args.pathway = "" => /\ res.outcome = EmDash
                                /\ res.step = "Choose a pathway"
                                /\ res.missing = <<"pathway selection">>

C9_Witness ==
    /\ returned
    /\ noOverride
    /\ args.pathway = UnknownPathway
    /\ res.outcome = NotCoveredText

-----------------------------------------------------------------------------
(* Properties of mergeOutcomes, over MergeSpec *)

rendered == pc = "rendered"

\* the text holds a procedure that canonicaliseToken knows
hasProcedureToken(text) ==
    \E i \in 1..Len(split(text)) : canonicaliseToken(split(text)[i]) # null

\* C10: for every non-empty list of per-pathway results, if some constituent's
\* outcome holds the face-to-face marker, at whatever position of the list,
\* merged_outcome is "Face-to-face assessment" and holds no procedure token,
\* whatever the other outcomes are.
C10_EscalationPrecedence ==
    (rendered /\ Len(args) >= 1
       /\ \E i \in 1..Len(args) : faceToFaceOf[args[i].outcome]) =>
        /\ res.merged_outcome = "Face-to-face assessment"
        /\ ~hasProcedureToken(res.merged_outcome)

C10_Witness ==
    /\ rendered
    /\ Len(args) = 2
    /\ args[1].outcome = "Colonoscopy + OGD"
    /\ args[2].pathway = "anal_rectal_lesion"
    /\ res.merged_outcome = "Face-to-face assessment"

nonEscalating == \A i \in 1..Len(args) : ~faceToFaceOf[args[i].outcome]

\* the merged outcome text names the label (labels are matched as written)
names(label) == includes(res.merged_outcome, label)

StagedOutcome == "Flexible sigmoidoscopy (FOS) -> if NAD, proceed to colonoscopy"

Placeholders == {"Needs FIT result", "Needs anaemia status", FitLt10Text, NotCoveredText}

\* the outcomes of decision that recommend colonoscopy outright, not as the
\* conditional second stage of the staged outcome
ColonoscopyOutcomes ==
    { text \in OutcomeTexts :
        text # StagedOutcome /\ includes(toLowerCase(text), "colonoscopy") }

PlaceholdersGiveNoToken == \A text \in Placeholders : ~hasProcedureToken(text)

\* C11 as stated: conditional and placeholder fragments add nothing to the
\* merged procedures. When the staged outcome "Flexible sigmoidoscopy (FOS)
\* -> if NAD, proceed to colonoscopy" is merged with outcomes none of which
\* recommends colonoscopy, merged_outcome names Flexible sigmoidoscopy and
\* does not name Colonoscopy; the placeholder texts give no token, so a list
\* of placeholders alone merges to the marker "--".
C11_ConditionalsAddNothing ==
    (rendered /\ Len(args) >= 1 /\ nonEscalating) =>
        /\ ( /\ \E i \in 1..Len(args) : args[i].outcome = StagedOutcome
             /\ \A i \in 1..Len(args) : args[i].outcome \notin ColonoscopyOutcomes )
            => (names("Flexible sigmoidoscopy") /\ ~names("Colonoscopy"))
        /\ PlaceholdersGiveNoToken
        /\ (\A i \in 1..Len(args) : args[i].outcome \in Placeholders)
            => res.merged_outcome = EmDash

\* the canonical labels that lines 317-327 find in the constituents' outcomes
producedLabels ==
    UNION { { canonOf[partsOf[args[i].outcome][k]].label :
                k \in { n \in 1..Len(partsOf[args[i].outcome]) :
                          canonOf[partsOf[args[i].outcome][n]] # null } } :
            i \in 1..Len(args) }

\* C12: for every non-empty list of non-escalating results, merged_outcome
\* never names both Colonoscopy and Flexible sigmoidoscopy; when both tokens
\* are produced Flexible sigmoidoscopy is dropped and Colonoscopy kept; every
\* other produced token is named, and Flexible sigmoidoscopy too when
\* Colonoscopy is not produced.
C12_Suppression ==
    (rendered /\ Len(args) >= 1 /\ nonEscalating) =>
        /\ ~(names("Colonoscopy") /\ names("Flexible sigmoidoscopy"))
        /\ {"Colonoscopy", "Flexible sigmoidoscopy"} \subseteq producedLabels
            => (names("Colonoscopy") /\ ~names("Flexible sigmoidoscopy"))
        /\ \A label \in producedLabels \ {"Flexible sigmoidoscopy"} : names(label)
        /\ ("Flexible sigmoidoscopy" \in producedLabels /\ "Colonoscopy" \notin producedLabels)
            => names("Flexible sigmoidoscopy")

C12_Witness ==
    /\ rendered
    /\ Len(args) = 2
    /\ args[1].outcome = "Flexible sigmoidoscopy"
    /\ args[2].outcome = "Colonoscopy + OGD"
    /\ res.merged_outcome = "Colonoscopy + OGD"

\* the canonical labels from the highest priority to the lowest
PriorityOrder ==
    << "Colonoscopy", "OGD", "CT abdomen & pelvis (CT AP)", "CT colonography (CTC)",
       "CT thorax/abdomen/pelvis (CT TAP)", "Tagged CT scan", "Flexible sigmoidoscopy" >>

\* the produced labels that the suppression leaves
survivingLabels(produced) ==
    IF "Colonoscopy" \in produced THEN produced \ {"Flexible sigmoidoscopy"} ELSE produced

inPriorityOrder(labels) == SelectSeq(PriorityOrder, LAMBDA label : label \in labels)

\* C13: for every non-empty list of non-escalating results, merged_outcome is
\* the surviving canonical labels, each once, from the highest priority to
\* the lowest, joined by " + "; when no label survives it is the marker "--"
\* and never the empty string. abdominal_mass with frailElderly true merged
\* with ida_lt_50 gives "Colonoscopy + OGD + CT abdomen & pelvis (CT AP)".
C13_PriorityOrder ==
    (rendered /\ Len(args) >= 1 /\ nonEscalating) =>
        LET surviving == inPriorityOrder(survivingLabels(producedLabels))
        IN  /\ res.merged_outcome # ""
            /\ surviving = <<>> => res.merged_outcome = EmDash
            /\ surviving # <<>> => res.merged_outcome = join(surviving, " + ")
            /\ ( /\ selectedPaths = <<"abdominal_mass", "ida_lt_50">>
                 /\ frailElderly = true )
                => res.merged_outcome = "Colonoscopy + OGD + CT abdomen & pelvis (CT AP)"

C13_Witness ==
    /\ rendered
    /\ selectedPaths = <<"abdominal_mass", "ida_lt_50">>
    /\ frailElderly = true
    /\ args[1].outcome = "CT abdomen & pelvis (CT AP)"
    /\ args[2].outcome = "Colonoscopy + OGD"
    /\ res.merged_outcome = "Colonoscopy + OGD + CT abdomen & pelvis (CT AP)"

\* the components of an outcome text that " + " separates
RECURSIVE plusComponents(_)
plusComponents(text) ==
    IF \E i \in 1..Len(text) : charAt(text, i) = "+"
    THEN LET i == CHOOSE k \in 1..Len(text) :
                    /\ charAt(text, k) = "+"
                    /\ \A j \in 1..(k - 1) : charAt(text, j) # "+"
         IN  <<trim(SubSeq(text, 1, i - 1))>> \o plusComponents(SubSeq(text, i + 1, Len(text)))
    ELSE <<trim(text)>>

\* a staged component "X -> if ..., proceed to Y" recommends X: the text
\* before the arrow
firstStage(component) ==
    IF \E i \in 1..(Len(component) - 1) : SubSeq(component, i, i + 1) = "->"
    THEN LET i == CHOOSE k \in 1..(Len(component) - 1) :
                    /\ SubSeq(component, k, k + 1) = "->"
                    /\ \A j \in 1..(k - 1) : SubSeq(component, j, j + 1) # "->"
         IN  trim(SubSeq(component, 1, i - 1))
    ELSE component

\* the procedures an outcome text recommends itself: the canonical labels of
\* its components
ownProceduresOf ==
    [ text \in OutcomeTexts |->
        LET components == plusComponents(text)
        IN  { canonicaliseToken(firstStage(components[k])).label :
                k \in { n \in 1..Len(components) :
                          canonicaliseToken(firstStage(components[n])) # null } } ]

namedLabels == { PriorityOrder[k] : k \in { n \in 1..Len(PriorityOrder) : names(PriorityOrder[n]) } }

\* C14 as stated: merging the single result r of one decision recommends
\* exactly the procedures of r.outcome, the canonical labels of its " + "
\* separated components in priority order: none is added, none is removed.
C14_SingleResultIdentity ==
    (rendered /\ Len(args) = 1) =>
        LET own == ownProceduresOf[args[1].outcome]
        IN  /\ namedLabels = own
            /\ own # {} => res.merged_outcome = join(inPriorityOrder(own), " + ")

\* the constituents' rule labels in selection order
stepLabels == [ i \in 1..Len(args) |-> args[i].step ]

\* C15 as stated: for every non-empty list of results, escalating or not,
\* merged_step is the constituents' rule labels joined by " || " in selection
\* order.
C15_StepsJoinedAlways ==
    (rendered /\ Len(args) >= 1) => res.merged_step = join(stepLabels, " || ")

\* C15 amended: when no constituent escalates, every constituent has a rule
\* label and merged_step is these labels joined by " || " in selection order;
\* when some constituent escalates, merged_step is the fixed label
\* "Face-to-face (one or more pathways)".
C15_MergedStep ==
    (rendered /\ Len(args) >= 1) =>
        /\ nonEscalating =>
              /\ \A i \in 1..Len(args) : args[i].step # ""
              /\ res.merged_step = join(stepLabels, " || ")
        /\ ~nonEscalating => res.merged_step = "Face-to-face (one or more pathways)"

C15_Witness ==
    /\ rendered
    /\ selectedPaths = <<"ida_lt_50", "abdominal_mass">>
    /\ nonEscalating
    /\ res.merged_step = "Rule set E: IDA age <50 || Rule set A: Abdominal mass"

entries(list) == { list[k] : k \in 1..Len(list) }

firstSeen(x, list) == CHOOSE k \in 1..Len(list) : list[k] = x /\ \A j \in 1..(k - 1) : list[j] # x

\* merged holds every entry of the lists once and nothing else, in the order
\* in which the entries are first met going through the lists
isUnionOf(merged, lists) ==
    LET all == flat(lists)
    IN  /\ entries(merged) = entries(all)
        /\ \A i, j \in 1..Len(merged) :
              i < j => firstSeen(merged[i], all) < firstSeen(merged[j], all)

\* C16: for every non-empty list of results, escalating or not, the merged
\* missing, mapping and supplementary lists each hold every entry of the
\* constituents' lists exactly once and nothing else, in first-seen order.
C16_Unions ==
    (rendered /\ Len(args) >= 1) =>
        /\ isUnionOf(res.missing, [i \in 1..Len(args) |-> args[i].missing])
        /\ isUnionOf(res.mapping, [i \in 1..Len(args) |-> args[i].mapping])
        /\ isUnionOf(res.supplementary, [i \in 1..Len(args) |-> args[i].supplementary])

C16_Witness ==
    /\ rendered
    /\ selectedPaths = <<"cibh_50_85", "abdominal_mass">>
    /\ ~nonEscalating
    /\ args[1].missing = <<"age", "FIT test result">>
    /\ args[2].missing = <<"age", "FIT test result", "frail/elderly status">>
    /\ res.missing = <<"age", "FIT test result", "frail/elderly status">>
    /\ has(args[1].mapping, WhoEntry)
    /\ has(args[2].mapping, WhoEntry)
    /\ Len(res.mapping) = Len(args[2].mapping)

-----------------------------------------------------------------------------
(* Further properties of decision, over DecisionSpec *)

\* the switch of line 87 is reached with a pathway it has a case for
dispatchReached == args.recentImaging # true /\ args.pathway \in PathwayKeys

\* C17 as stated: whenever dispatch is reached, the rule set of the pathway
\* has appended at least one trace entry when it hands over to finalize, for
\* every FIT value, present or absent, and every value of the flags and age.
C17_RuleSetTraces ==
    (pc = "finalize" /\ dispatchReached) => Len(res.mapping) >= 1

isPrefix(short, long) ==
    Len(short) <= Len(long) /\ SubSeq(long, 1, Len(short)) = short

\* C18: in every step of one evaluation of decision the trace only grows at
\* its end: the entries it held stay in place and in order. When finalize
\* runs with whoStatus 3 or 4 the entries of the pathway rule or of the
\* recent-imaging override stay and the WHO entry is added as the last one;
\* with any other whoStatus finalize leaves the trace as it is.
C18_AppendOnlyTrace ==
    [][ pc # "entry" =>
          /\ isPrefix(res.mapping, res'.mapping)
          /\ (pc = "finalize" /\ who34) => res'.mapping = Append(res.mapping, WhoEntry)
          /\ (pc = "finalize" /\ ~who34) => res'.mapping = res.mapping ]_vars

C18_Witness ==
    /\ returned
    /\ args.pathway = "ida_lt_50"
    /\ args.recentImaging = false
    /\ args.whoStatus = Num(4)
    /\ res.mapping = << "IDA <50 -> colonoscopy + OGD (regardless of FIT band in your rules).",
                        WhoEntry >>

\* C19: a NaN age or FIT value is treated as an absent one: for every pathway
\* and every value of the other inputs, decision returns with age = NaN the
\* result (missing, band, outcome, step, mapping, supplementary) it returns
\* with age = null, and with fit = NaN the result it returns with fit = null.
C19_NaNAsAbsent ==
    returned =>
        /\ args.age = NaN => res = decision([args EXCEPT !.age = null])
        /\ args.fit = NaN => res = decision([args EXCEPT !.fit = null])

C19_Witness ==
    /\ returned
    /\ noOverride
    /\ args.pathway = "cibh_50_85"
    /\ args.age = NaN
    /\ args.fit = NaN
    /\ res.missing = <<"age", "FIT test result">>
    /\ res.band = null
    /\ res.outcome = "Needs FIT result"

\* C20: for every pathway other than abdominal_mass decision returns the same
\* result for all three values of frailElderly, the other inputs being equal,
\* and for every pathway other than rb_cibh_lt_50 the same result for all
\* three values of anaemia.
C20_FlagsInfluence ==
    returned =>
        /\ args.pathway # "abdominal_mass" =>
              \A flag \in TriState : decision([args EXCEPT !.frailElderly = flag]) = res
        /\ args.pathway # "rb_cibh_lt_50" =>
              \A flag \in TriState : decision([args EXCEPT !.anaemia = flag]) = res

C20_Witness ==
    /\ returned
    /\ noOverride
    /\ args.pathway = "cibh_50_85"
    /\ args.frailElderly = null
    /\ args.anaemia = null
    /\ args.fit = Num(50)
    /\ args.age = Num(50)
    /\ res.outcome = "CT colonography (CTC)"
    /\ res.missing = <<>>
    /\ res.supplementary = <<>>

\* the notes of the rule sets about the entered age
isAgeNote(note) == Len(note) >= 11 /\ SubSeq(note, 1, 11) = "Age entered"

notAgeNote(note) == ~isAgeNote(note)

\* C29: for every pathway and every value of the other inputs decision
\* returns the same outcome, rule label, band and trace for every age value,
\* present or absent; apart from the name "age" the missing list is the same
\* and apart from the notes about the entered age the supplementary notes are
\* the same.
C29_AgeNeverChangesOutcome ==
    returned =>
        \A other \in Ages :
            LET d == decision([args EXCEPT !.age = other])
            IN  /\ d.outcome = res.outcome
                /\ d.step = res.step
                /\ d.band = res.band
                /\ d.mapping = res.mapping
                /\ without(d.missing, "age") = without(res.missing, "age")
                /\ SelectSeq(d.supplementary, notAgeNote)
                     = SelectSeq(res.supplementary, notAgeNote)

C29_Witness ==
    /\ returned
    /\ noOverride
    /\ args.pathway = "cibh_50_85"
    /\ args.age = Num(86)
    /\ args.fit = Num(50)
    /\ res.outcome = "CT colonography (CTC)"
    /\ res.supplementary = <<"Age entered is outside 50-85 for this pathway selection.">>
    /\ decision([args EXCEPT !.age = Num(50)]).supplementary = <<>>

-----------------------------------------------------------------------------
(* The latest revision against the earlier one, over DecisionSpec *)

\* the pathways that both revisions have
CommonPathways == PathwayKeys \ {"rb_cibh_lt_50"}

\* what the earlier revision returns for the inputs of this call, under the
\* given pathway key
earlierAs(key) == earlier_decision([args EXCEPT !.pathway = key])

sameButStep(x, y) ==
    /\ x.outcome = y.outcome
    /\ x.mapping = y.mapping
    /\ x.missing = y.missing
    /\ x.supplementary = y.supplementary

\* C21: for every input with recentImaging not true, the latest decision
\* returns for each of the eight common pathways the result of the earlier
\* decision; rb_cibh_lt_50 with anaemia true returns the outcome, trace,
\* missing list and supplementary notes of the earlier rb_cibh_lt_50_anaemia,
\* and with anaemia false those of the earlier rb_cibh_lt_50_no_anaemia.
C21_UnifiedSubsumesSplit ==
    (returned /\ args.recentImaging # true) =>
        /\ args.pathway \in CommonPathways => res = earlier_decision(args)
        /\ (args.pathway = "rb_cibh_lt_50" /\ args.anaemia = true)
            => sameButStep(res, earlierAs("rb_cibh_lt_50_anaemia"))
        /\ (args.pathway = "rb_cibh_lt_50" /\ args.anaemia = false)
            => sameButStep(res, earlierAs("rb_cibh_lt_50_no_anaemia"))

C21_Witness ==
    /\ returned
    /\ noOverride
    /\ args.pathway = "rb_cibh_lt_50"
    /\ args.anaemia = false
    /\ args.fit = Num(9)
    /\ args.age = Num(50)
    /\ res.outcome = "Flexible sigmoidoscopy"
    /\ earlierAs("rb_cibh_lt_50_no_anaemia").outcome = "Flexible sigmoidoscopy"
    /\ earlierAs("rb_cibh_lt_50_no_anaemia").supplementary
         = <<"Age entered is not <50 for this pathway selection.">>

-----------------------------------------------------------------------------
(* Further properties of mergeOutcomes, over MergeSpec *)

isMergedRecord(x) ==
    DOMAIN x = {"per_pathway", "merged_outcome", "merged_step", "merged_pathway",
                "missing", "mapping", "supplementary"}

\* C23: mergeOutcomes given the empty list returns null and not a record;
\* given a non-empty list it returns a record with the merged fields.
C23_EmptyListGivesNull ==
    rendered =>
        /\ Len(args) = 0 => res = null
        /\ Len(args) >= 1 => (res # null /\ isMergedRecord(res) /\ res.per_pathway = args)

C23_Witness ==
    /\ rendered
    /\ selectedPaths = <<>>
    /\ pathway = ""
    /\ args = <<>>
    /\ res = null

\* the list with its elements at the places i and i + 1 exchanged
swapped(list, i) ==
    [ k \in 1..Len(list) |->
        IF k = i THEN list[i + 1] ELSE IF k = i + 1 THEN list[i] ELSE list[k] ]

\* C27: merged_outcome does not depend on the order of the list: exchanging
\* two neighbours of any non-empty list of per-pathway results leaves it the
\* same, and so, the exchanges of neighbours making up every permutation,
\* does every reordering of the list.
C27_OrderIndependent ==
    (rendered /\ Len(args) >= 1) =>
        \A i \in 1..(Len(args) - 1) :
            mergeOutcomes(swapped(args, i)).merged_outcome = res.merged_outcome

C27_Witness ==
    /\ rendered
    /\ selectedPaths = <<"rb_cibh_lt_50", "ida_gt_50">>
    /\ args[1].outcome = "Flexible sigmoidoscopy"
    /\ args[2].outcome = "CTC + OGD"
    /\ res.merged_outcome = "OGD + CT colonography (CTC) + Flexible sigmoidoscopy"
    /\ mergeOutcomes(swapped(args, 1)).merged_step # res.merged_step

\* the name of a procedure text without its bracketed abbreviation, and the
\* abbreviation
longName(text) ==
    IF \E i \in 1..Len(text) : charAt(text, i) = "("
    THEN trim(SubSeq(text, 1, (CHOOSE k \in 1..Len(text) :
                                  /\ charAt(text, k) = "("
                                  /\ \A j \in 1..(k - 1) : charAt(text, j) # "(") - 1))
    ELSE text

abbreviation(text) ==
    IF \E i \in 1..Len(text) : charAt(text, i) = "("
    THEN SubSeq(text, (CHOOSE k \in 1..Len(text) :
                          /\ charAt(text, k) = "("
                          /\ \A j \in 1..(k - 1) : charAt(text, j) # "(") + 1, Len(text) - 1)
    ELSE ""

\* the component names the procedure of the label: by the same name, with or
\* without an abbreviation, or by the label's abbreviation
denotes(component, label) ==
    \/ longName(component) = longName(label)
    \/ component = abbreviation(label)

\* the labels that the components of an outcome text denote, a staged
\* component counting by its first stage
denotedBy ==
    [ text \in OutcomeTexts |->
        LET components == plusComponents(text)
        IN  { PriorityOrder[n] : n \in { m \in 1..Len(PriorityOrder) :
                \E k \in 1..Len(components) :
                    denotes(firstStage(components[k]), PriorityOrder[m]) } } ]

\* C25 as stated: every procedure label in merged_outcome denotes a
\* procedure that some constituent's outcome recommends unconditionally as
\* one of its " + "-separated components; the merge introduces no procedure
\* and widens none: "CT thorax" of "CTC + CT thorax" is not reported as
\* "CT thorax/abdomen/pelvis (CT TAP)".
C25_NoProcedureIntroduced ==
    (rendered /\ Len(args) >= 1) =>
        /\ namedLabels \subseteq UNION { denotedBy[args[i].outcome] : i \in 1..Len(args) }
        /\ (\A i \in 1..Len(args) : args[i].outcome = "CTC + CT thorax")
            => ~names("CT thorax/abdomen/pelvis (CT TAP)")

-----------------------------------------------------------------------------
(* Properties of the form, over Spec *)

\* C24 as stated: after reset, from any state of the form, the form is in its
\* initial state: selectedPaths is empty and pathway is "", no per-pathway
\* result is computed and the displayed result is the no-pathway result, with
\* "pathway selection" in missing.
C24_ResetRestoresInit ==
    [][ reset =>
          /\ AppInit'
          /\ perResults' = <<>>
          /\ has(result'.missing, "pathway selection") ]_vars

\* C26 as stated: in every state of the form with recentImaging true and
\* whoStatus not 3 or 4 the displayed outcome is "Face-to-face appointment",
\* whether no, one or several pathways are selected.
C26_OverrideTextAnySelection ==
    (recentImaging = true /\ whoStatus \notin {Num(3), Num(4)}) =>
        displayedOutcome = "Face-to-face appointment"

\* C28 as stated: in every state of the form the band carried by the
\* displayed result is fitBand of the entered FIT value, whether no, one or
\* several pathways are selected.
C28_DisplayedBand == result.band = fitBand(fit)

noKeyTwice == \A i, j \in 1..Len(selectedPaths) : i # j => selectedPaths[i] # selectedPaths[j]

pathwayIsFirst == pathway = (IF Len(selectedPaths) # 0 THEN selectedPaths[1] ELSE "")

\* the keys selected before and after a step stand in the same order after
\* it, and a key selected by the step stands after them
orderKept ==
    /\ \A i, j \in 1..Len(selectedPaths) : \A m, n \in 1..Len(selectedPaths') :
          (i < j /\ selectedPaths'[m] = selectedPaths[i] /\ selectedPaths'[n] = selectedPaths[j])
            => m < n
    /\ \A m, n \in 1..Len(selectedPaths') :
          (listIncludes(selectedPaths, selectedPaths'[m])
             /\ ~listIncludes(selectedPaths, selectedPaths'[n]))
            => m < n

\* C30: after any sequence of togglePathway calls and changes of the other
\* fields, reset not being used, selectedPaths holds no key twice and pathway
\* is its first element, or "" when it is empty; every step keeps the
\* still-selected keys in the order in which they were added.
C30_SelectionList ==
    /\ [](noKeyTwice /\ pathwayIsFirst)
    /\ [][orderKept]_vars

C30_Witness ==
    /\ selectedPaths = <<"wl_50_85", "abdominal_mass">>
    /\ pathway = "wl_50_85"
    /\ fitStr = "50"
    /\ whoStatus = Num(2)

====
